---- MODULE Spec2Model ----
(***************************************************************************)
(* AVLSystem (fixed_avl_system.py): the feed synthesis cycle process_data  *)
(* and the functions it calls, as a state machine.                         *)
(*                                                                         *)
(* Python dicts are functions whose DOMAIN is the set of keys present.     *)
(* Raw field values are strings, as they arrive from JSON / CSV / config;  *)
(* float() and int() are the partial conversions ToFloat / ToInt below.    *)
(* Floats are whole degrees.  Times "HH:MM:SS" are sequences of the digits *)
(* of HH (the fixed ":00:00" tail is left out); they are compared as       *)
(* Python compares strings, character by character.                        *)
(***************************************************************************)
EXTENDS Integers, Sequences, FiniteSets, TLC

VARIABLES
    config,              \* self.config (load_config), fixed after __init__
    previous_positions,  \* self.previous_positions: device_id -> last fix
    vehicle_positions,   \* self.vehicle_positions
    trip_updates,        \* self.trip_updates
    service_alerts,      \* self.service_alerts
    running,             \* main's while-loop is still alive
    pc,                  \* where process_data stands in the current cycle
    failure,             \* why the cycle ended Failed ("" when it has not)
    download,            \* what the GTFS static URL served in this cycle
    gps_data,            \* process_data's gps_data
    gtfs_data,           \* process_data's gtfs_data
    now,                 \* datetime.now() as read by trip selection
    current_trip,        \* process_data's current_trip (<<>> or <<trip>>)
    fix_before,          \* previous_positions as create_vehicle_position found it
    bearing_source,      \* which assignment set vehicle.position.bearing
    persisted            \* messages handed to save_protobuf in this cycle

vars == <<config, previous_positions, vehicle_positions, trip_updates,
          service_alerts, running, pc, failure, download, gps_data, gtfs_data,
          now, current_trip, fix_before, bearing_source, persisted>>

-----------------------------------------------------------------------------
(* Bounds                                                                  *)

MaxTrips == 3
MaxRows == 3
MaxAlerts == 3

-----------------------------------------------------------------------------
(* Python values                                                           *)

\* None, for a variable that otherwise holds a dict
None == [NoneType |-> TRUE]

\* {}
EmptyDict == [k \in {} |-> ""]

\* bool(d) is False for None and for the empty dict
Falsy(d) == d = None \/ DOMAIN d = {}

\* d.get(k, default)
Get(d, k, default) == IF k \in DOMAIN d THEN d[k] ELSE default

\* str(d.get(k)): a missing key gives None, and str(None) is "None"
StrGet(d, k) == Get(d, k, "None")

\* d.update(e)
Update(d, e) == [k \in DOMAIN d \cup DOMAIN e |-> IF k \in DOMAIN e THEN e[k] ELSE d[k]]

\* the texts float() accepts, with their values
FloatOf == [x \in {"0.0", "10.0", "40.0", "41.0", "45.0"} |->
              CASE x = "0.0" -> 0 [] x = "10.0" -> 10 [] x = "40.0" -> 40
                [] x = "41.0" -> 41 [] x = "45.0" -> 45]

\* float(x): ok = FALSE stands for ValueError / TypeError
ToFloat(x) == IF x \in DOMAIN FloatOf THEN [ok |-> TRUE, val |-> FloatOf[x]]
                                      ELSE [ok |-> FALSE, val |-> 0]

\* the texts int() accepts, with their values
IntOf == [x \in {"0", "1", "2", "3"} |->
            CASE x = "0" -> 0 [] x = "1" -> 1 [] x = "2" -> 2 [] x = "3" -> 3]

\* int(x): ok = FALSE stands for ValueError / TypeError
ToInt(x) == IF x \in DOMAIN IntOf THEN [ok |-> TRUE, val |-> IntOf[x]]
                                  ELSE [ok |-> FALSE, val |-> 0]

\* a <= b on Python strings: lexicographic, a proper prefix is smaller
RECURSIVE StrLeq(_, _)
StrLeq(a, b) ==
    IF a = <<>> THEN TRUE
    ELSE IF b = <<>> THEN FALSE
    ELSE IF Head(a) < Head(b) THEN TRUE
    ELSE IF Head(a) > Head(b) THEN FALSE
    ELSE StrLeq(Tail(a), Tail(b))

-----------------------------------------------------------------------------
(* calculate_bearing, in whole degrees, on the grid of coordinates the     *)
(* telemetry below can produce (latitudes 0, 40, 41; longitudes 0, 10).    *)

calculate_bearing(lat1, lon1, lat2, lon2) ==
    CASE lat1 = lat2 /\ lon1 = lon2 -> 0        \* atan2(0, 0) = 0
      [] lon1 = lon2 /\ lat2 > lat1 -> 0        \* due north
      [] lon1 = lon2 /\ lat2 < lat1 -> 180      \* due south
      [] lat1 = 0 /\ lat2 = 0 /\ lon2 > lon1 -> 90
      [] lat1 = 0 /\ lat2 = 0 /\ lon2 < lon1 -> 270
      [] lat1 = 0 /\ lat2 = 40 /\ lon2 > lon1 -> 12
      [] lat1 = 0 /\ lat2 = 41 /\ lon2 > lon1 -> 11
      [] lat1 = 0 /\ lat2 = 40 /\ lon2 < lon1 -> 348
      [] lat1 = 0 /\ lat2 = 41 /\ lon2 < lon1 -> 349
      [] lat1 = 40 /\ lat2 = 0 /\ lon2 > lon1 -> 165
      [] lat1 = 40 /\ lat2 = 0 /\ lon2 < lon1 -> 195
      [] lat1 = 41 /\ lat2 = 0 /\ lon2 > lon1 -> 165
      [] lat1 = 41 /\ lat2 = 0 /\ lon2 < lon1 -> 195
      [] lat1 = 40 /\ lat2 = 40 /\ lon2 > lon1 -> 87
      [] lat1 = 40 /\ lat2 = 40 /\ lon2 < lon1 -> 273
      [] lat1 = 40 /\ lat2 = 41 /\ lon2 > lon1 -> 79
      [] lat1 = 40 /\ lat2 = 41 /\ lon2 < lon1 -> 281
      [] lat1 = 41 /\ lat2 = 40 /\ lon2 > lon1 -> 94
      [] lat1 = 41 /\ lat2 = 40 /\ lon2 < lon1 -> 266
      [] lat1 = 41 /\ lat2 = 41 /\ lon2 > lon1 -> 87
      [] lat1 = 41 /\ lat2 = 41 /\ lon2 < lon1 -> 273

-----------------------------------------------------------------------------
(* Trip selection (process_data, the loop over route_info['trips'])        *)

\* the loop without its break: the last trip of the whole list with
\* start_time <= now
RECURSIVE ScanTripsNoBreak(_, _, _)
ScanTripsNoBreak(trips, t, found) ==
    IF trips = <<>> THEN found
    ELSE IF StrLeq(Get(Head(trips), "start_time", <<>>), t)
         THEN ScanTripsNoBreak(Tail(trips), t, Head(trips))
         ELSE ScanTripsNoBreak(Tail(trips), t, found)

\* the for-loop: keep the last trip with start_time <= now, break at the
\* first trip with start_time > now
RECURSIVE ScanTrips(_, _, _)
ScanTrips(trips, t, found) ==
    IF trips = <<>> THEN found
    ELSE IF StrLeq(Get(Head(trips), "start_time", <<>>), t)
         THEN ScanTrips(Tail(trips), t, Head(trips))
         ELSE found

\* current_trip after the loop and the "use the first trip" fallback;
\* None when the route has no trip at all
SelectTrip(trips, t) ==
    LET found == ScanTrips(trips, t, None)
    IN  IF ~Falsy(found) THEN found
        ELSE IF trips # <<>> THEN trips[1]
        ELSE None

-----------------------------------------------------------------------------
(* create_vehicle_position                                                 *)

\* the bearing branch taken when no previous position is stored:
\* float(gps_bearing), 0.0 when it is None or float() rejects it
GpsBearing(gps) ==
    IF "bearing" \in DOMAIN gps /\ ToFloat(gps["bearing"]).ok
    THEN ToFloat(gps["bearing"]).val
    ELSE 0

\* the test without its look at the previous position
ValidCoordinatesCurrentOnly(current_lat, current_lon, prev_pos) ==
    /\ current_lat # 0
    /\ current_lon # 0

\* "Only calculate bearing if we have valid coordinates"
ValidCoordinates(current_lat, current_lon, prev_pos) ==
    /\ current_lat # 0
    /\ current_lon # 0
    /\ prev_pos.latitude # 0
    /\ prev_pos.longitude # 0

\* an estimator that keeps the last processed device's entry only
SetPositionLastOnly(gps, prev) ==
    LET lat == ToFloat(Get(gps, "latitude", "0.0"))
        lon == ToFloat(Get(gps, "longitude", "0.0"))
        device_id == StrGet(gps, "device_id")
        fallback == ToFloat(Get(gps, "bearing", "0.0"))
        zeroed == [caught |-> TRUE, latitude |-> 0, longitude |-> 0, bearing |-> 0,
                   source |-> "zeroed", previous_positions |-> prev]
        stored(b, src) ==
            [caught |-> FALSE, latitude |-> lat.val, longitude |-> lon.val,
             bearing |-> b, source |-> src,
             previous_positions |->
                 [d \in {device_id} |->
                     [latitude |-> lat.val, longitude |-> lon.val]]]
    IN  IF ~lat.ok \/ ~lon.ok THEN zeroed
        ELSE IF device_id \in DOMAIN prev
        THEN IF ValidCoordinates(lat.val, lon.val, prev[device_id])
             THEN stored(calculate_bearing(prev[device_id].latitude,
                                           prev[device_id].longitude,
                                           lat.val, lon.val), "computed")
             ELSE IF fallback.ok THEN stored(fallback.val, "fallback")
             ELSE zeroed
        ELSE stored(GpsBearing(gps), "fallback")

\* The try-block that sets the position.  caught = TRUE is the
\* except (ValueError, TypeError) handler: the three position fields are
\* zeroed and previous_positions is not written.
\* The entry written to previous_positions holds the two coordinates; its
\* 'timestamp' (time.time()) is left out, as are the wall-clock fields of
\* the messages (header.timestamp, start_date, start_time).
SetPosition(gps, prev) ==
    LET lat == ToFloat(Get(gps, "latitude", "0.0"))
        lon == ToFloat(Get(gps, "longitude", "0.0"))
        device_id == StrGet(gps, "device_id")
        fallback == ToFloat(Get(gps, "bearing", "0.0"))
        zeroed == [caught |-> TRUE, latitude |-> 0, longitude |-> 0, bearing |-> 0,
                   source |-> "zeroed", previous_positions |-> prev]
        stored(b, src) ==
            [caught |-> FALSE, latitude |-> lat.val, longitude |-> lon.val,
             bearing |-> b, source |-> src,
             previous_positions |->
                 Update(prev, [d \in {device_id} |->
                                  [latitude |-> lat.val, longitude |-> lon.val]])]
    IN  IF ~lat.ok \/ ~lon.ok THEN zeroed
        ELSE IF device_id \in DOMAIN prev
        THEN IF ValidCoordinates(lat.val, lon.val, prev[device_id])
             THEN stored(calculate_bearing(prev[device_id].latitude,
                                           prev[device_id].longitude,
                                           lat.val, lon.val), "computed")
             ELSE IF fallback.ok THEN stored(fallback.val, "fallback")
             ELSE zeroed
        ELSE stored(GpsBearing(gps), "fallback")

\* raised = TRUE: int(direction_id) failed outside any try-block, the
\* exception leaves create_vehicle_position and nothing was written
create_vehicle_position(gps, prev) ==
    LET direction_id == ToInt(Get(gps, "direction_id", "0"))
        p == SetPosition(gps, prev)
    IN  IF ~direction_id.ok
        THEN [raised |-> TRUE, previous_positions |-> prev, source |-> "none",
              message |-> None]
        ELSE [raised |-> FALSE,
              previous_positions |-> p.previous_positions,
              source |-> p.source,
              message |->
                [kind |-> "vehicle_position",
                 gtfs_realtime_version |-> "2.0",
                 entity |-> << [id |-> StrGet(gps, "device_id"),
                                trip |-> [trip_id |-> StrGet(gps, "trip_id"),
                                          route_id |-> StrGet(gps, "route_id"),
                                          direction_id |-> direction_id.val],
                                position |-> [latitude |-> p.latitude,
                                              longitude |-> p.longitude,
                                              bearing |-> p.bearing],
                                vehicle |-> [id |-> StrGet(gps, "device_id"),
                                             label |-> Get(gps, "label",
                                                           StrGet(gps, "device_id"))]] >>]]

-----------------------------------------------------------------------------
(* process_gtfs_data, fetch_gtfs_static, get_trip_stops                    *)
(* Columns that are only copied (route_type, shape_id, stop_code, ...) are *)
(* left out of the rows.                                                   *)

\* some row of the table has a value in `field` that int() rejects
\* (a missing field takes the default 0 and converts)
BadInt(rows, field) ==
    \E i \in 1..Len(rows) : ~ToInt(Get(rows[i], field, "0")).ok

\* some row of the table has a value in `field` that float() rejects
BadFloat(rows, field) ==
    \E i \in 1..Len(rows) : ~ToFloat(Get(rows[i], field, "0.0")).ok

\* d[k] = v on a dict
Put(d, k, v) == Update(d, [x \in {k} |-> v])

RECURSIVE IndexRoutes(_, _)
IndexRoutes(rows, acc) ==
    IF rows = <<>> THEN acc
    ELSE LET route == Head(rows)
             route_id == Get(route, "route_id", "")
         IN  IndexRoutes(Tail(rows),
                 Put(acc, route_id,
                     [route_id |-> route_id,
                      route_name |-> Get(route, "route_long_name", "")]))

RECURSIVE IndexTrips(_, _)
IndexTrips(rows, acc) ==
    IF rows = <<>> THEN acc
    ELSE LET trip == Head(rows)
             trip_id == Get(trip, "trip_id", "")
         IN  IndexTrips(Tail(rows),
                 Put(acc, trip_id,
                     [trip_id |-> trip_id,
                      route_id |-> Get(trip, "route_id", ""),
                      direction_id |-> ToInt(Get(trip, "direction_id", "0")).val]))

RECURSIVE IndexStops(_, _)
IndexStops(rows, acc) ==
    IF rows = <<>> THEN acc
    ELSE LET stop == Head(rows)
             stop_id == Get(stop, "stop_id", "")
         IN  IndexStops(Tail(rows),
                 Put(acc, stop_id,
                     [stop_id |-> stop_id,
                      stop_name |-> Get(stop, "stop_name", ""),
                      stop_lat |-> ToFloat(Get(stop, "stop_lat", "0.0")).val,
                      stop_lon |-> ToFloat(Get(stop, "stop_lon", "0.0")).val]))

\* the append loop over stop_times: one list per trip_id, in row order
RECURSIVE AppendStopTimes(_, _)
AppendStopTimes(rows, acc) ==
    IF rows = <<>> THEN acc
    ELSE LET stop_time == Head(rows)
             trip_id == Get(stop_time, "trip_id", "")
             entry == [stop_sequence |-> ToInt(Get(stop_time, "stop_sequence", "0")).val,
                       stop_id |-> Get(stop_time, "stop_id", ""),
                       arrival_time |-> Get(stop_time, "arrival_time", <<>>),
                       departure_time |-> Get(stop_time, "departure_time", <<>>)]
         IN  AppendStopTimes(Tail(rows),
                 Put(acc, trip_id, Append(Get(acc, trip_id, <<>>), entry)))

\* an insertion that puts e in front of the entries with its stop_sequence
RECURSIVE InsertBeforeEqual(_, _)
InsertBeforeEqual(sorted, e) ==
    IF sorted = <<>> THEN <<e>>
    ELSE IF Head(sorted).stop_sequence < e.stop_sequence
         THEN <<Head(sorted)>> \o InsertBeforeEqual(Tail(sorted), e)
         ELSE <<e>> \o sorted

\* insert e behind every entry whose stop_sequence is <= e's
RECURSIVE InsertBySequence(_, _)
InsertBySequence(sorted, e) ==
    IF sorted = <<>> THEN <<e>>
    ELSE IF Head(sorted).stop_sequence <= e.stop_sequence
         THEN <<Head(sorted)>> \o InsertBySequence(Tail(sorted), e)
         ELSE <<e>> \o sorted

\* list.sort(key=stop_sequence): ascending and stable
RECURSIVE SortBySequence(_, _)
SortBySequence(list, acc) ==
    IF list = <<>> THEN acc
    ELSE SortBySequence(Tail(list), InsertBySequence(acc, Head(list)))

\* raised = TRUE: an int() / float() on a row raised; no index is returned
process_gtfs_data(gtfs) ==
    LET rows(table) == Get(gtfs, table, <<>>)
        appended == AppendStopTimes(rows("stop_times"), EmptyDict)
    IN  IF \/ BadInt(rows("trips"), "direction_id")
           \/ BadFloat(rows("stops"), "stop_lat")
           \/ BadFloat(rows("stops"), "stop_lon")
           \/ BadInt(rows("stop_times"), "stop_sequence")
        THEN [raised |-> TRUE, processed |-> None]
        ELSE [raised |-> FALSE,
              processed |->
                [routes |-> IndexRoutes(rows("routes"), EmptyDict),
                 trips |-> IndexTrips(rows("trips"), EmptyDict),
                 stops |-> IndexStops(rows("stops"), EmptyDict),
                 stop_sequences |->
                    [t \in DOMAIN appended |-> SortBySequence(appended[t], <<>>)]]]

\* dl = None: the request or the unzip failed.  Any exception, also one
\* raised by process_gtfs_data, is logged and None is returned.
fetch_gtfs_static(dl) ==
    IF dl = None THEN None
    ELSE IF process_gtfs_data(dl).raised THEN None
    ELSE process_gtfs_data(dl).processed

\* a join that stops at the first entry whose stop_id is unknown
RECURSIVE JoinStopsBreak(_, _)
JoinStopsBreak(entries, stops) ==
    IF entries = <<>> THEN <<>>
    ELSE LET stop_seq == Head(entries)
         IN  IF stop_seq.stop_id \in DOMAIN stops
             THEN << [stop_sequence |-> stop_seq.stop_sequence,
                      stop_id |-> stop_seq.stop_id,
                      stop_name |-> stops[stop_seq.stop_id].stop_name,
                      arrival_time |-> stop_seq.arrival_time,
                      departure_time |-> stop_seq.departure_time] >> \o
                  JoinStopsBreak(Tail(entries), stops)
             ELSE <<>>

\* the loop of get_trip_stops: entries whose stop_id is not in stops are
\* skipped
RECURSIVE JoinStops(_, _)
JoinStops(entries, stops) ==
    IF entries = <<>> THEN <<>>
    ELSE LET stop_seq == Head(entries)
             rest == JoinStops(Tail(entries), stops)
         IN  IF stop_seq.stop_id \in DOMAIN stops
             THEN << [stop_sequence |-> stop_seq.stop_sequence,
                      stop_id |-> stop_seq.stop_id,
                      stop_name |-> stops[stop_seq.stop_id].stop_name,
                      arrival_time |-> stop_seq.arrival_time,
                      departure_time |-> stop_seq.departure_time] >> \o rest
             ELSE rest

get_trip_stops(trip_id, gtfs) ==
    IF trip_id \in DOMAIN gtfs.stop_sequences
    THEN JoinStops(gtfs.stop_sequences[trip_id], gtfs.stops)
    ELSE <<>>

-----------------------------------------------------------------------------
(* create_trip_update                                                      *)

\* datetime.strptime(today + " " + t, "%Y%m%d %H:%M:%S") succeeds: two
\* digits and an hour of at most 23
ParsesAsTime(t) == Len(t) = 2 /\ 10 * t[1] + t[2] <= 23

\* arrival.time / departure.time of a stop-time update: unset when the
\* schedule time is empty, the schedule hour of today when it parses,
\* int(time.time()) when strptime raises ValueError
StopTime(t) ==
    IF t = <<>> THEN [from |-> "unset", hour |-> 0]
    ELSE IF ParsesAsTime(t) THEN [from |-> "schedule", hour |-> 10 * t[1] + t[2]]
    ELSE [from |-> "clock", hour |-> 0]

StopTimeUpdates(stops) ==
    [i \in 1..Len(stops) |->
        [stop_sequence |-> stops[i].stop_sequence,
         stop_id |-> stops[i].stop_id,
         arrival |-> StopTime(stops[i].arrival_time),
         departure |-> StopTime(stops[i].departure_time),
         schedule_relationship |-> 0]]

\* raised = TRUE: int(direction_id) failed, the exception leaves the function
create_trip_update(gps, gtfs) ==
    LET trip_id == StrGet(gps, "trip_id")
        direction_id == ToInt(Get(gps, "direction_id", "0"))
    IN  IF ~direction_id.ok THEN [raised |-> TRUE, message |-> None]
        ELSE [raised |-> FALSE,
              message |->
                [kind |-> "trip_update",
                 gtfs_realtime_version |-> "2.0",
                 entity |-> << [id |-> <<"trip_", trip_id>>,
                                trip |-> [trip_id |-> trip_id,
                                          route_id |-> StrGet(gps, "route_id"),
                                          direction_id |-> direction_id.val],
                                vehicle |-> [id |-> StrGet(gps, "device_id"),
                                             label |-> Get(gps, "label",
                                                           StrGet(gps, "device_id"))],
                                stop_time_update |->
                                    StopTimeUpdates(get_trip_stops(trip_id, gtfs))] >>]]

-----------------------------------------------------------------------------
(* create_service_alert                                                    *)

\* a builder that names the entity after str(alert_data.get('id'))
create_service_alert_str_id(alert_data) ==
    LET duration == ToInt(Get(alert_data, "duration", "3"))
    IN  IF ~duration.ok THEN [raised |-> TRUE, message |-> None]
        ELSE [raised |-> FALSE,
              message |->
                [kind |-> "service_alert",
                 gtfs_realtime_version |-> "2.0",
                 entity |-> << [id |-> <<"alert_", StrGet(alert_data, "id")>>,
                                header_text |-> Get(alert_data, "header", "Service Alert"),
                                description_text |->
                                    Get(alert_data, "description", "No details available"),
                                duration |-> duration.val,
                                informed_entity |->
                                    Get(alert_data, "affected_entities", <<"all_routes">>),
                                cause |-> Get(alert_data, "cause", "1"),
                                effect |-> Get(alert_data, "effect", "8")] >>]]

\* "uuid4" stands for str(uuid.uuid4()), an id no alert input carries.
\* raised = TRUE: int(time.time()) + duration failed (duration is no number)
create_service_alert(alert_data) ==
    LET duration == ToInt(Get(alert_data, "duration", "3"))
    IN  IF ~duration.ok THEN [raised |-> TRUE, message |-> None]
        ELSE [raised |-> FALSE,
              message |->
                [kind |-> "service_alert",
                 gtfs_realtime_version |-> "2.0",
                 entity |-> << [id |-> <<"alert_", Get(alert_data, "id", "uuid4")>>,
                                header_text |-> Get(alert_data, "header", "Service Alert"),
                                description_text |->
                                    Get(alert_data, "description", "No details available"),
                                duration |-> duration.val,
                                informed_entity |->
                                    Get(alert_data, "affected_entities", <<"all_routes">>),
                                cause |-> Get(alert_data, "cause", "1"),
                                effect |-> Get(alert_data, "effect", "8")] >>]]

\* the loop over gtfs_data['alerts']: the messages saved before the first
\* alert whose construction raises
RECURSIVE SavedAlerts(_)
SavedAlerts(alerts) ==
    IF alerts = <<>> \/ create_service_alert(Head(alerts)).raised THEN <<>>
    ELSE <<create_service_alert(Head(alerts)).message>> \o SavedAlerts(Tail(alerts))

AlertRaises(alerts) ==
    \E i \in 1..Len(alerts) : create_service_alert(alerts[i]).raised

-----------------------------------------------------------------------------
(* Configuration (config.json) and inputs                                  *)

Trip(id, direction, start) ==
    [trip_id |-> id, direction_id |-> direction, start_time |-> start]

\* a lookup whose default is the first configured vehicle
get_vehicle_info_first(cfg, vehicle_number) ==
    LET vehicles == Get(cfg, "vehicles", EmptyDict)
    IN  Get(vehicles, vehicle_number,
            IF vehicles = EmptyDict THEN [device_id |-> vehicle_number, label |-> vehicle_number]
            ELSE vehicles[CHOOSE v \in DOMAIN vehicles : ~Falsy(vehicles[v])])

\* get_vehicle_info
get_vehicle_info(cfg, vehicle_number) ==
    Get(Get(cfg, "vehicles", EmptyDict), vehicle_number,
        [device_id |-> vehicle_number, label |-> vehicle_number])

\* A fleet of two buses: bus1 with a three-trip route and a route without
\* trips; bus2 with a route whose afternoon trip has a direction_id that is
\* not a number; bus3 with an empty entry.
FleetConfig ==
    [vehicles |->
        [bus1 |-> [device_id |-> "bus1", label |-> "Bus 1",
                   routes |-> [r1 |-> [trips |-> << Trip("t1", "0", <<0, 6>>),
                                                    Trip("t2", "1", <<0, 9>>),
                                                    Trip("t3", "0", <<1, 4>>) >>],
                               r2 |-> [trips |-> <<>>]]],
         bus2 |-> [device_id |-> "bus2", label |-> "Bus 2",
                   routes |-> [r1 |-> [trips |-> << Trip("t2", "1", <<0, 6>>),
                                                    Trip("t3", "inbound", <<1, 4>>) >>]]],
         bus3 |-> EmptyDict],
     routes |-> EmptyDict]

\* A configuration with an entry under the key "None", the key that
\* str(gps_data.get('device_id')) yields for telemetry without a device_id.
PlaceholderConfig ==
    [vehicles |->
        ("None" :> [device_id |-> "None", label |-> "unassigned",
                    routes |-> ("None" :> [trips |-> << Trip("t1", "0", <<0, 6>>) >>])]),
     routes |-> EmptyDict]

Configs == {FleetConfig, PlaceholderConfig}

\* a key that the response does not carry
Absent == "<absent>"

Strip(d) == [k \in {x \in DOMAIN d : d[x] # Absent} |-> d[k]]

DeviceIds == {"bus1", "bus2", "bus3", "bus9"}
RouteIds == {"r1", "r2", "r9"}
RawLatitudes == {Absent, "north", "0.0", "40.0", "41.0"}
RawLongitudes == {Absent, "east", "10.0"}
RawBearings == {Absent, "NNE", "45.0"}

Fixes ==
    {Strip([device_id |-> d, route_id |-> r, latitude |-> la, longitude |-> lo,
            bearing |-> b]) :
        d \in DeviceIds, r \in RouteIds, la \in RawLatitudes, lo \in RawLongitudes,
        b \in RawBearings}

\* fetch_gps_data's return value when the request raised
ErrorMarker == [error |-> "ConnectionError"]

\* what fetch_gps_data can return: a fix, an empty JSON object, the marker
GpsResponses == Fixes \cup {EmptyDict, ErrorMarker}

\* the schedule archive: stops s1 and s2; trip t1 with its stop_times rows
\* out of order; trip t2 with a stop unknown to stops.txt and a time past
\* 24:00:00
GoodFeed ==
    [routes |-> << [route_id |-> "r1", route_long_name |-> "Line 1"] >>,
     trips |-> << [trip_id |-> "t1", route_id |-> "r1", direction_id |-> "0"],
                  [trip_id |-> "t2", route_id |-> "r1"] >>,
     stops |-> << [stop_id |-> "s1", stop_name |-> "First", stop_lat |-> "40.0",
                   stop_lon |-> "10.0"],
                  [stop_id |-> "s2", stop_name |-> "Second"] >>,
     stop_times |-> << [trip_id |-> "t1", stop_id |-> "s2", stop_sequence |-> "2",
                        arrival_time |-> <<0, 8>>, departure_time |-> <<0, 8>>],
                       [trip_id |-> "t1", stop_id |-> "s1", stop_sequence |-> "1",
                        arrival_time |-> <<0, 7>>, departure_time |-> <<>>],
                       [trip_id |-> "t2", stop_id |-> "s9", stop_sequence |-> "1",
                        arrival_time |-> <<0, 9>>, departure_time |-> <<0, 9>>],
                       [trip_id |-> "t2", stop_id |-> "s1", stop_sequence |-> "2",
                        arrival_time |-> <<2, 5>>, departure_time |-> <<2, 5>>] >>]

\* the same archive with one trips.txt row whose direction_id is a word
BadRowFeed ==
    [GoodFeed EXCEPT !.trips = Append(@, [trip_id |-> "t3", route_id |-> "r1",
                                          direction_id |-> "outbound"])]

\* alert inputs: with and without id, header and duration; "long" is a
\* duration that is not a number
AlertInputs ==
    {Strip([id |-> i, header |-> h, duration |-> d]) :
        i \in {Absent, "a1"}, h \in {Absent, "Detour"}, d \in {Absent, "2", "long"}}

\* the same archive with a table of two alerts in it; fetch_gtfs_static
\* reads routes, trips, stops, stop_times and calendar only
AlertFeed ==
    Update(GoodFeed, [alerts |-> << [id |-> "a1", header |-> "Detour"],
                                    [duration |-> "2"] >>])

\* None: the download or the unzip failed
Downloads == {None, GoodFeed, BadRowFeed, AlertFeed}

\* the wall clock at trip selection
Clock == {<<0, 5>>, <<0, 9>>, <<1, 0>>, <<1, 5>>}

-----------------------------------------------------------------------------
(* State machine                                                           *)

NoLocals ==
    /\ failure = ""
    /\ download = None
    /\ gps_data = EmptyDict
    /\ gtfs_data = None
    /\ now = <<>>
    /\ current_trip = None
    /\ fix_before = EmptyDict
    /\ bearing_source = "none"
    /\ persisted = <<>>

Init ==
    /\ config \in Configs
    /\ previous_positions = EmptyDict
    /\ vehicle_positions = EmptyDict
    /\ trip_updates = EmptyDict
    /\ service_alerts = EmptyDict
    /\ running = TRUE
    /\ pc = "Idle"
    /\ NoLocals

Tables == <<config, vehicle_positions, trip_updates, service_alerts>>

\* an exception reaches process_data's except clause, which logs it and
\* re-raises; schedule.run_pending() lets it through and main ends
Raise(reason) ==
    /\ pc' = "Failed"
    /\ failure' = reason
    /\ running' = FALSE

\* process_data logs an error and returns
Fail(reason) ==
    /\ pc' = "Failed"
    /\ failure' = reason
    /\ running' = running

\* the scheduler calls process_data; both inputs are fetched and tested
FetchInputs ==
    /\ running
    /\ pc = "Idle"
    /\ \E g \in GpsResponses, dl \in Downloads :
          /\ gps_data' = g
          /\ download' = dl
          /\ gtfs_data' = fetch_gtfs_static(dl)
          /\ IF Falsy(g) \/ Falsy(fetch_gtfs_static(dl))
             THEN Fail("InputUnavailable")
             ELSE /\ pc' = "ResolvingContext"
                  /\ UNCHANGED <<failure, running>>
    /\ UNCHANGED <<Tables, previous_positions, now, current_trip, fix_before,
                   bearing_source, persisted>>

\* vehicle and route lookup, trip selection, gps_data.update(...)
ResolveContext ==
    /\ pc = "ResolvingContext"
    /\ LET vehicle_number == StrGet(gps_data, "device_id")
           vehicle_info == get_vehicle_info(config, vehicle_number)
           route_id == StrGet(gps_data, "route_id")
           routes == Get(vehicle_info, "routes", EmptyDict)
       IN  IF Falsy(vehicle_info)
           THEN Fail("UnknownVehicle") /\ UNCHANGED <<now, current_trip, gps_data>>
           ELSE IF route_id \notin DOMAIN routes
           THEN Fail("UnknownRoute") /\ UNCHANGED <<now, current_trip, gps_data>>
           ELSE \E t \in Clock :
                  LET trips == Get(routes[route_id], "trips", <<>>)
                      trip == SelectTrip(trips, t)
                  IN  /\ now' = t
                      /\ current_trip' = trip
                      /\ IF trip = None
                         THEN Fail("NoResolvableTrip") /\ UNCHANGED gps_data
                         ELSE /\ gps_data' =
                                   Update(gps_data,
                                          [device_id |-> vehicle_info.device_id,
                                           label |-> vehicle_info.label,
                                           trip_id |-> trip.trip_id,
                                           route_id |-> route_id,
                                           direction_id |-> trip.direction_id])
                              /\ pc' = "BuildingFeeds"
                              /\ UNCHANGED <<failure, running>>
    /\ UNCHANGED <<Tables, previous_positions, download, gtfs_data, fix_before,
                   bearing_source, persisted>>

\* create_vehicle_position and save_protobuf(..., 'vehicle_position')
BuildVehiclePosition ==
    /\ pc = "BuildingFeeds"
    /\ LET r == create_vehicle_position(gps_data, previous_positions)
       IN  IF r.raised
           THEN Raise("ValueError")
                /\ UNCHANGED <<previous_positions, fix_before, bearing_source, persisted>>
           ELSE /\ previous_positions' = r.previous_positions
                /\ fix_before' = previous_positions
                /\ bearing_source' = r.source
                /\ persisted' = Append(persisted, r.message)
                /\ pc' = "BuildingTripUpdate"
                /\ UNCHANGED <<failure, running>>
    /\ UNCHANGED <<Tables, download, gps_data, gtfs_data, now, current_trip>>

\* create_trip_update and save_protobuf(..., 'trip_update')
BuildTripUpdate ==
    /\ pc = "BuildingTripUpdate"
    /\ LET r == create_trip_update(gps_data, gtfs_data)
       IN  IF r.raised
           THEN Raise("ValueError") /\ UNCHANGED persisted
           ELSE /\ persisted' = Append(persisted, r.message)
                /\ pc' = "ProcessingAlerts"
                /\ UNCHANGED <<failure, running>>
    /\ UNCHANGED <<Tables, previous_positions, download, gps_data, gtfs_data, now,
                   current_trip, fix_before, bearing_source>>

\* "if 'alerts' in gtfs_data": one create_service_alert and save per alert
ProcessAlerts ==
    /\ pc = "ProcessingAlerts"
    /\ IF "alerts" \in DOMAIN gtfs_data
       THEN /\ persisted' = persisted \o SavedAlerts(gtfs_data["alerts"])
            /\ IF AlertRaises(gtfs_data["alerts"])
               THEN Raise("TypeError")
               ELSE pc' = "Done" /\ UNCHANGED <<failure, running>>
       ELSE /\ pc' = "Done"
            /\ UNCHANGED <<failure, running, persisted>>
    /\ UNCHANGED <<Tables, previous_positions, download, gps_data, gtfs_data, now,
                   current_trip, fix_before, bearing_source>>

\* process_data has returned: its locals are gone, main sleeps until the
\* next run_pending()
EndCycle ==
    /\ running
    /\ pc \in {"Done", "Failed"}
    /\ pc' = "Idle"
    /\ failure' = ""
    /\ download' = None
    /\ gps_data' = EmptyDict
    /\ gtfs_data' = None
    /\ now' = <<>>
    /\ current_trip' = None
    /\ fix_before' = EmptyDict
    /\ bearing_source' = "none"
    /\ persisted' = <<>>
    /\ UNCHANGED <<Tables, previous_positions, running>>

Next ==
    \/ FetchInputs
    \/ ResolveContext
    \/ BuildVehiclePosition
    \/ BuildTripUpdate
    \/ ProcessAlerts
    \/ EndCycle

Spec == Init /\ [][Next]_vars

-----------------------------------------------------------------------------
(* Trip selection on its own: every trip list of up to MaxTrips trips for  *)
(* bus1's route r1, a cycle that has fetched its inputs.                   *)

TripIds == <<"t1", "t2", "t3", "t4", "t5">>

\* '' is the start_time of a trip that has none
StartTimes == {<<>>, <<0, 6>>, <<0, 9>>, <<1, 4>>}

TripLists ==
    UNION {{[i \in 1..n |-> Trip(TripIds[i], "0", starts[i])] :
                starts \in [1..n -> StartTimes]} : n \in 0..MaxTrips}

SelectConfig(trips) ==
    [vehicles |-> [bus1 |-> [device_id |-> "bus1", label |-> "Bus 1",
                             routes |-> [r1 |-> [trips |-> trips]]]],
     routes |-> EmptyDict]

InitSelect ==
    /\ config \in {SelectConfig(trips) : trips \in TripLists}
    /\ previous_positions = EmptyDict
    /\ vehicle_positions = EmptyDict
    /\ trip_updates = EmptyDict
    /\ service_alerts = EmptyDict
    /\ running = TRUE
    /\ pc = "ResolvingContext"
    /\ failure = ""
    /\ download = GoodFeed
    /\ gps_data = [device_id |-> "bus1", route_id |-> "r1", latitude |-> "40.0",
                   longitude |-> "10.0"]
    /\ gtfs_data = fetch_gtfs_static(GoodFeed)
    /\ now = <<>>
    /\ current_trip = None
    /\ fix_before = EmptyDict
    /\ bearing_source = "none"
    /\ persisted = <<>>

NextSelect == ResolveContext

SpecSelect == InitSelect /\ [][NextSelect]_vars

-----------------------------------------------------------------------------
(* The schedule index on its own: every stop_times.txt of up to MaxRows    *)
(* rows, with and without stops.txt in the archive, in a cycle that has    *)
(* resolved bus1's trip on route r1.                                       *)

\* a row's trip_id, stop_id (s9 is not in stops.txt) and stop_sequence
RowShapes ==
    [trip : {"t1", "t2"}, stop : {"s1", "s9"}, seq : {Absent, "1", "2"}]

\* the i-th row of stop_times.txt; its times tell the rows apart
StopTimesRow(i, shape) ==
    LET row == [trip_id |-> shape.trip, stop_id |-> shape.stop,
                arrival_time |-> <<0, i>>, departure_time |-> <<0, i>>]
    IN  IF shape.seq = Absent THEN row
        ELSE Update(row, [stop_sequence |-> shape.seq])

StopTimesTables ==
    UNION {{[i \in 1..n |-> StopTimesRow(i, shapes[i])] :
                shapes \in [1..n -> RowShapes]} : n \in 0..MaxRows}

IndexFeeds ==
    {[routes |-> GoodFeed.routes, trips |-> GoodFeed.trips,
      stops |-> GoodFeed.stops, stop_times |-> rows] : rows \in StopTimesTables}
    \cup
    {[routes |-> GoodFeed.routes, trips |-> GoodFeed.trips,
      stop_times |-> rows] : rows \in StopTimesTables}

\* the clock readings that select t1 (in the index) and t3 (not in it)
IndexClock == {<<0, 5>>, <<1, 5>>}

InitIndex ==
    /\ config = FleetConfig
    /\ previous_positions = EmptyDict
    /\ vehicle_positions = EmptyDict
    /\ trip_updates = EmptyDict
    /\ service_alerts = EmptyDict
    /\ running = TRUE
    /\ pc = "BuildingFeeds"
    /\ failure = ""
    /\ download \in IndexFeeds
    /\ gtfs_data = fetch_gtfs_static(download)
    /\ now \in IndexClock
    /\ current_trip = SelectTrip(FleetConfig.vehicles["bus1"].routes["r1"].trips, now)
    /\ gps_data = [device_id |-> "bus1", label |-> "Bus 1", route_id |-> "r1",
                   trip_id |-> current_trip.trip_id,
                   direction_id |-> current_trip.direction_id,
                   latitude |-> "40.0", longitude |-> "10.0"]
    /\ fix_before = EmptyDict
    /\ bearing_source = "none"
    /\ persisted = <<>>

NextIndex ==
    \/ BuildVehiclePosition
    \/ BuildTripUpdate

SpecIndex == InitIndex /\ [][NextIndex]_vars

-----------------------------------------------------------------------------
(* The alert loop on its own (process_data, "if 'alerts' in gtfs_data" and  *)
(* create_service_alert): a resolved cycle whose gtfs_data carries a list  *)
(* of up to MaxAlerts alert inputs under 'alerts'.                         *)

AlertLists ==
    UNION {[1..n -> AlertInputs] : n \in 0..MaxAlerts}

InitAlerts ==
    /\ config = FleetConfig
    /\ previous_positions = EmptyDict
    /\ vehicle_positions = EmptyDict
    /\ trip_updates = EmptyDict
    /\ service_alerts = EmptyDict
    /\ running = TRUE
    /\ pc = "BuildingFeeds"
    /\ failure = ""
    /\ download = GoodFeed
    /\ gtfs_data \in {Update(fetch_gtfs_static(GoodFeed), [alerts |-> alerts]) :
                        alerts \in AlertLists}
    /\ now = <<0, 5>>
    /\ current_trip = SelectTrip(FleetConfig.vehicles["bus1"].routes["r1"].trips, now)
    /\ gps_data = [device_id |-> "bus1", label |-> "Bus 1", route_id |-> "r1",
                   trip_id |-> current_trip.trip_id,
                   direction_id |-> current_trip.direction_id,
                   latitude |-> "40.0", longitude |-> "10.0"]
    /\ fix_before = EmptyDict
    /\ bearing_source = "none"
    /\ persisted = <<>>

NextAlerts ==
    \/ BuildVehiclePosition
    \/ BuildTripUpdate
    \/ ProcessAlerts

SpecAlerts == InitAlerts /\ [][NextAlerts]_vars

-----------------------------------------------------------------------------
(* Properties                                                              *)

\* the trip list the cycle selected from (defined once the route was found)
RouteTrips ==
    Get(config.vehicles[StrGet(gps_data, "device_id")].routes[StrGet(gps_data, "route_id")],
        "trips", <<>>)

\* trip selection has run on the route's trip list
Selected == now # <<>>

\* the length of the longest leading run of trips with start_time <= now
LeadingRun(trips, t) ==
    CHOOSE k \in 0..Len(trips) :
        /\ \A i \in 1..k : StrLeq(trips[i].start_time, t)
        /\ k = Len(trips) \/ ~StrLeq(trips[k + 1].start_time, t)

SortedByStart(trips) ==
    \A i \in 1..Len(trips), j \in 1..Len(trips) :
        i < j => StrLeq(trips[i].start_time, trips[j].start_time)

\* C1: for a non-empty trip list the selected trip is the last trip of the
\* longest leading run of trips with start_time <= now, and trips[0] when
\* that run is empty; on a list sorted by start_time it is then a trip with
\* the greatest start_time <= now.
C1_TripSelection ==
    (Selected /\ RouteTrips # <<>>) =>
        LET k == LeadingRun(RouteTrips, now)
        IN  /\ pc = "BuildingFeeds"
            /\ current_trip = IF k > 0 THEN RouteTrips[k] ELSE RouteTrips[1]
            /\ (SortedByStart(RouteTrips) /\ k > 0) =>
                  \A i \in 1..Len(RouteTrips) :
                      StrLeq(RouteTrips[i].start_time, now) =>
                          StrLeq(RouteTrips[i].start_time, current_trip.start_time)

\* C1 witness: the scan broke at the third of three trips and the second
\* one was selected
C1_Witness ==
    /\ pc = "BuildingFeeds"
    /\ Len(RouteTrips) = 3
    /\ LeadingRun(RouteTrips, now) = 2
    /\ current_trip = RouteTrips[2]
    /\ current_trip.start_time = <<0, 9>>

-----------------------------------------------------------------------------
(* Heading estimation                                                      *)

\* create_vehicle_position has returned in this cycle
PositionBuilt == persisted # <<>>

\* the position written to the vehicle position message
Position == persisted[1].entity[1].position

Device == StrGet(gps_data, "device_id")

\* latitude and longitude of the telemetry both convert to numbers
CoordsOk ==
    /\ Get(gps_data, "latitude", "0.0") \in DOMAIN FloatOf
    /\ Get(gps_data, "longitude", "0.0") \in DOMAIN FloatOf

\* the current fix: the converted coordinates, 0.0 for a missing one
CurrentFix ==
    [latitude |-> FloatOf[Get(gps_data, "latitude", "0.0")],
     longitude |-> FloatOf[Get(gps_data, "longitude", "0.0")]]

Sentinel == [latitude |-> 0, longitude |-> 0]

\* a previous fix was stored for the device when the call began
HadPrevious == Device \in DOMAIN fix_before

\* the telemetry's bearing as a float, 0.0 when absent or unparsable
FallbackBearing ==
    IF "bearing" \in DOMAIN gps_data /\ gps_data["bearing"] \in DOMAIN FloatOf
    THEN FloatOf[gps_data["bearing"]]
    ELSE 0

\* no previous fix, or the current or the previous fix is (0,0)
NoBaseline ==
    \/ ~HadPrevious
    \/ CoordsOk /\ CurrentFix = Sentinel
    \/ HadPrevious /\ fix_before[Device] = Sentinel

\* C2 as stated: with no previous fix, or with the current or the previous
\* fix at (0,0), the bearing written is the telemetry's fallback bearing
\* (0.0 when absent or unparsable) and is never computed.
C2_Original ==
    (PositionBuilt /\ NoBaseline) =>
        /\ Position.bearing = FallbackBearing
        /\ bearing_source # "computed"

\* C2 amended: the same, provided latitude and longitude convert to
\* numbers; when one of them does not, the bearing written is 0.0 whatever
\* the fallback bearing is.  In neither case is the bearing computed.
C2_FallbackBearing ==
    (PositionBuilt /\ NoBaseline) =>
        /\ CoordsOk => Position.bearing = FallbackBearing
        /\ ~CoordsOk => Position.bearing = 0
        /\ bearing_source # "computed"

\* C2 witness: the stored previous fix is (0,0), the current fix is
\* (40,10), and the telemetry's bearing 45 was written
C2_Witness ==
    /\ PositionBuilt
    /\ HadPrevious
    /\ fix_before[Device] = Sentinel
    /\ CoordsOk
    /\ CurrentFix = [latitude |-> 40, longitude |-> 10]
    /\ Position.bearing = 45
    /\ bearing_source = "fallback"

\* C3 as stated: with a previous fix stored and neither fix at (0,0), also
\* when a fix has exactly one zero coordinate, the bearing written is
\* calculate_bearing(previous, current).
C3_Original ==
    (PositionBuilt /\ CoordsOk /\ HadPrevious /\ CurrentFix # Sentinel
        /\ fix_before[Device] # Sentinel) =>
        /\ bearing_source = "computed"
        /\ Position.bearing = calculate_bearing(fix_before[Device].latitude,
                                                fix_before[Device].longitude,
                                                CurrentFix.latitude, CurrentFix.longitude)

\* C4 as stated: after a call of create_vehicle_position the device's entry
\* of previous_positions is the current fix (stated here for fixes whose
\* coordinates convert, whatever the bearing is).
C4_Original ==
    (PositionBuilt /\ CoordsOk) =>
        /\ Device \in DOMAIN previous_positions
        /\ previous_positions[Device] = CurrentFix

\* C5 as stated: a processed (0,0) fix becomes the stored previous fix, and
\* a stored (0,0) makes the device's next cycle report the fallback bearing
\* even for a fix with valid coordinates.
C5_Original ==
    PositionBuilt =>
        /\ (CoordsOk /\ CurrentFix = Sentinel) =>
              (Device \in DOMAIN previous_positions
                  /\ previous_positions[Device] = Sentinel)
        /\ (CoordsOk /\ HadPrevious /\ fix_before[Device] = Sentinel) =>
              (bearing_source # "computed" /\ Position.bearing = FallbackBearing)

-----------------------------------------------------------------------------
(* Cycle outcomes                                                          *)

\* C6 as stated (its outcome): when fetch_gps_data returned its error marker
\* or fetch_gtfs_static returned None, the cycle is treated as a fetch
\* failure, so it persists no message and does not end Done.
C6_Original ==
    ("error" \in DOMAIN gps_data \/ (pc # "Idle" /\ gtfs_data = None)) =>
        /\ pc # "Done"
        /\ persisted = <<>>

\* the telemetry's device is not configured, or its route is not among the
\* vehicle's routes, or the route has no trips
Unresolvable ==
    LET vehicles == config.vehicles
        route_id == StrGet(gps_data, "route_id")
    IN  \/ Device \notin DOMAIN vehicles
        \/ "routes" \notin DOMAIN vehicles[Device]
        \/ route_id \notin DOMAIN vehicles[Device].routes
        \/ vehicles[Device].routes[route_id].trips = <<>>

\* C7: a cycle whose device is not configured, whose route is not among the
\* vehicle's routes, or whose route has no trips ends Failed without
\* persisting a message and without changing previous_positions.
C7_UnresolvableFails ==
    [][/\ (pc = "ResolvingContext" /\ Unresolvable) =>
            (/\ pc' = "Failed"
             /\ failure' \in {"UnknownVehicle", "UnknownRoute", "NoResolvableTrip"}
             /\ persisted' = <<>>
             /\ previous_positions' = previous_positions)
       /\ pc = "Failed" =>
            (/\ persisted' = <<>>
             /\ previous_positions' = previous_positions)]_vars

\* C7 witness: a cycle for a route without trips has ended Failed, positions
\* of earlier cycles are stored, nothing was persisted
C7_Witness ==
    /\ pc = "Failed"
    /\ failure = "NoResolvableTrip"
    /\ Unresolvable
    /\ previous_positions # EmptyDict
    /\ persisted = <<>>

\* C8 as stated: a cycle whose context was resolved is never aborted by a
\* bad numeric or time field; it persists the vehicle position and the trip
\* update.
C8_Original ==
    (current_trip # None /\ pc \in {"Done", "Failed"}) =>
        /\ pc = "Done"
        /\ Len(persisted) >= 2
        /\ persisted[1].kind = "vehicle_position"
        /\ persisted[2].kind = "trip_update"

\* C9 as stated: no cycle propagates an error to the scheduler loop; after
\* every cycle the loop is alive for the next trigger.
C9_Original == pc \in {"Done", "Failed"} => (running /\ ENABLED EndCycle)

\* C10 as stated: whatever the rows of a downloaded archive hold, the index
\* is produced (a default stands in for a bad numeric field), so the cycle
\* has its schedule input.
C10_Original ==
    (pc # "Idle" /\ download # None) =>
        /\ gtfs_data # None
        /\ DOMAIN gtfs_data = {"routes", "trips", "stops", "stop_sequences"}

-----------------------------------------------------------------------------
(* Schedule index and stop-time updates                                    *)

\* the rows of stop_times.txt that belong to trip t, in file order
RECURSIVE RowsOf(_, _)
RowsOf(rows, t) ==
    IF rows = <<>> THEN <<>>
    ELSE IF Get(Head(rows), "trip_id", "") = t
         THEN <<Head(rows)>> \o RowsOf(Tail(rows), t)
         ELSE RowsOf(Tail(rows), t)

\* the trip update has been handed to save_protobuf
TripUpdateBuilt == Len(persisted) >= 2

StopTimeUpdate == persisted[2].entity[1].stop_time_update

\* C11 as stated, seen once the cycle's trip update is built: every trip's
\* stop sequence list is strictly ascending by stop_sequence, and so are the
\* entries get_trip_stops hands to the trip update
C11_Original ==
    TripUpdateBuilt =>
        /\ \A t \in DOMAIN gtfs_data.stop_sequences :
              LET list == gtfs_data.stop_sequences[t]
              IN  \A i \in 1..(Len(list) - 1) :
                     list[i].stop_sequence < list[i + 1].stop_sequence
        /\ \A i \in 1..(Len(StopTimeUpdate) - 1) :
              StopTimeUpdate[i].stop_sequence < StopTimeUpdate[i + 1].stop_sequence

\* C11, amended: every trip's stop sequence list holds one entry per row of
\* the trip, ascending by stop_sequence, rows of equal stop_sequence (a row
\* without one counts as 0) in file order; get_trip_stops keeps that order
C11_SortedStable ==
    /\ \A t \in DOMAIN gtfs_data.stop_sequences :
          LET list == gtfs_data.stop_sequences[t]
              rows == RowsOf(download.stop_times, t)
          IN  /\ Len(list) = Len(rows)
              /\ \A r \in 1..Len(rows) :
                    \E i \in 1..Len(list) :
                       /\ list[i].arrival_time = rows[r].arrival_time
                       /\ list[i].stop_id = rows[r].stop_id
                       /\ list[i].stop_sequence =
                             IntOf[Get(rows[r], "stop_sequence", "0")]
              /\ \A i \in 1..(Len(list) - 1) :
                    \/ list[i].stop_sequence < list[i + 1].stop_sequence
                    \/ /\ list[i].stop_sequence = list[i + 1].stop_sequence
                       /\ list[i].arrival_time[2] < list[i + 1].arrival_time[2]
    /\ TripUpdateBuilt =>
          \A i \in 1..(Len(StopTimeUpdate) - 1) :
             \/ StopTimeUpdate[i].stop_sequence < StopTimeUpdate[i + 1].stop_sequence
             \/ /\ StopTimeUpdate[i].stop_sequence = StopTimeUpdate[i + 1].stop_sequence
                /\ StopTimeUpdate[i].arrival.hour < StopTimeUpdate[i + 1].arrival.hour

\* rows 2, 1, 1 of trip t1 were indexed and its trip update was built
C11_Witness ==
    /\ TripUpdateBuilt
    /\ Len(download.stop_times) = 3
    /\ \A i \in 1..3 : /\ download.stop_times[i].trip_id = "t1"
                       /\ "stop_sequence" \in DOMAIN download.stop_times[i]
    /\ download.stop_times[1].stop_sequence = "2"
    /\ download.stop_times[2].stop_sequence = "1"
    /\ download.stop_times[3].stop_sequence = "1"
    /\ Len(StopTimeUpdate) = 3

-----------------------------------------------------------------------------
(* Service alerts                                                          *)

\* the alert inputs of the cycle: the alerts the archive carried
AlertInputsPresent ==
    IF download # None /\ "alerts" \in DOMAIN download THEN download.alerts ELSE <<>>

\* the service alert messages handed to save_protobuf in this cycle
RECURSIVE AlertsOf(_)
AlertsOf(messages) ==
    IF messages = <<>> THEN <<>>
    ELSE IF Head(messages).kind = "service_alert"
         THEN <<Head(messages)>> \o AlertsOf(Tail(messages))
         ELSE AlertsOf(Tail(messages))

\* C12 as stated: a cycle that fetched a fix and went through BuildingFeeds
\* to its end has persisted one service alert per alert input, and none
\* without inputs
C12_Original ==
    (pc = "Done" /\ "error" \notin DOMAIN gps_data) =>
        Len(AlertsOf(persisted)) = Len(AlertInputsPresent)

\* the messages of the alerts that create_service_alert can build, each
\* taken on its own
RECURSIVE BuildableAlerts(_)
BuildableAlerts(alerts) ==
    IF alerts = <<>> THEN <<>>
    ELSE IF create_service_alert(Head(alerts)).raised
         THEN BuildableAlerts(Tail(alerts))
         ELSE <<create_service_alert(Head(alerts)).message>> \o
              BuildableAlerts(Tail(alerts))

\* the alert loop has run on a list in which some alert cannot be built
AlertFailed ==
    /\ pc \in {"Done", "Failed"}
    /\ Len(persisted) >= 2
    /\ "alerts" \in DOMAIN gtfs_data
    /\ AlertRaises(gtfs_data["alerts"])

-----------------------------------------------------------------------------
(* Message headers and entities                                            *)

\* C14: every message built in a cycle has version "2.0" and exactly one
\* entity; the vehicle position's entity is named after the device_id, the
\* trip update's "trip_" + trip_id, and the k-th alert's "alert_" + its id,
\* or "alert_" + a fresh id when the alert input has no id
C14_OneEntity ==
    /\ \A i \in 1..Len(persisted) :
          /\ persisted[i].gtfs_realtime_version = "2.0"
          /\ Len(persisted[i].entity) = 1
    /\ Len(persisted) >= 1 =>
          /\ persisted[1].kind = "vehicle_position"
          /\ persisted[1].entity[1].id = gps_data["device_id"]
    /\ Len(persisted) >= 2 =>
          /\ persisted[2].kind = "trip_update"
          /\ persisted[2].entity[1].id = <<"trip_", gps_data["trip_id"]>>
    /\ \A k \in 3..Len(persisted) :
          LET alert == gtfs_data["alerts"][k - 2]
          IN  /\ persisted[k].kind = "service_alert"
              /\ persisted[k].entity[1].id =
                    IF "id" \in DOMAIN alert THEN <<"alert_", alert["id"]>>
                    ELSE <<"alert_", "uuid4">>

\* a cycle has built all three kinds: an alert with an id, one without
C14_Witness ==
    /\ pc = "Done"
    /\ Len(persisted) = 4
    /\ "id" \in DOMAIN gtfs_data["alerts"][1]
    /\ "id" \notin DOMAIN gtfs_data["alerts"][2]

-----------------------------------------------------------------------------
(* Frame of a cycle                                                        *)

\* C15: no step of any cycle modifies the configuration or the tables
\* vehicle_positions, trip_updates and service_alerts; a step changes
\* previous_positions at most in the entry of the cycle's device, and never
\* removes an entry
C15_Frame ==
    [][/\ config' = config
       /\ vehicle_positions' = vehicle_positions
       /\ trip_updates' = trip_updates
       /\ service_alerts' = service_alerts
       /\ DOMAIN previous_positions \subseteq DOMAIN previous_positions'
       /\ \A d \in DOMAIN previous_positions :
             previous_positions'[d] # previous_positions[d] =>
                (pc = "BuildingFeeds" /\ d = StrGet(gps_data, "device_id"))
       /\ \A d \in DOMAIN previous_positions' \ DOMAIN previous_positions :
             pc = "BuildingFeeds" /\ d = StrGet(gps_data, "device_id")]_vars

\* the fix of one device has just replaced its entry next to another
\* device's entry
C15_Witness ==
    /\ pc = "BuildingTripUpdate"
    /\ Cardinality(DOMAIN previous_positions) >= 2
    /\ Device \in DOMAIN fix_before
    /\ fix_before[Device] # previous_positions[Device]

-----------------------------------------------------------------------------
(* Stop-time updates                                                       *)

\* the stop sequence of the cycle's trip; empty when the index has no such
\* trip
SelectedSequence ==
    Get(gtfs_data.stop_sequences, StrGet(gps_data, "trip_id"), <<>>)

\* the positions in SelectedSequence whose stop_id is in the stops index
KnownStops ==
    {i \in 1..Len(SelectedSequence) :
        SelectedSequence[i].stop_id \in DOMAIN gtfs_data.stops}

\* the k-th of those positions
KnownStop(k) ==
    CHOOSE i \in KnownStops : Cardinality({j \in KnownStops : j < i}) = k - 1

\* C16: building the trip update never fails on the index; its stop-time
\* updates are, in order, the entries of the selected trip's stop sequence
\* whose stop_id is in the stops index, each SCHEDULED (0); there are none
\* when the trip is not in the index or the archive had no stops table
C16_StopTimeUpdates ==
    /\ pc # "Failed"
    /\ TripUpdateBuilt =>
          /\ Len(StopTimeUpdate) = Cardinality(KnownStops)
          /\ \A k \in 1..Len(StopTimeUpdate) :
                LET entry == SelectedSequence[KnownStop(k)]
                IN  /\ StopTimeUpdate[k].stop_sequence = entry.stop_sequence
                    /\ StopTimeUpdate[k].stop_id = entry.stop_id
                    /\ StopTimeUpdate[k].arrival =
                          [from |-> "schedule", hour |-> entry.arrival_time[2]]
                    /\ StopTimeUpdate[k].schedule_relationship = 0
          /\ StrGet(gps_data, "trip_id") \notin DOMAIN gtfs_data.stop_sequences =>
                StopTimeUpdate = <<>>
          /\ "stops" \notin DOMAIN download => StopTimeUpdate = <<>>

\* trip t1 has three entries, the middle one at a stop that stops.txt does
\* not have; its trip update carries the other two
C16_Witness ==
    /\ TripUpdateBuilt
    /\ Len(SelectedSequence) = 3
    /\ KnownStops = {1, 3}
    /\ Len(StopTimeUpdate) = 2

-----------------------------------------------------------------------------
(* Order of the steps of a cycle                                           *)

\* C17 as stated: the messages of a cycle are persisted in the order vehicle
\* position, trip update, service alerts; and once the cycle stands at the
\* trip update, or beyond it, the vehicle position has been persisted and
\* previous_positions holds the cycle's fix for its device
C17_Original ==
    /\ \A i \in 1..Len(persisted) :
          persisted[i].kind = IF i = 1 THEN "vehicle_position"
                              ELSE IF i = 2 THEN "trip_update"
                              ELSE "service_alert"
    /\ (pc \in {"BuildingTripUpdate", "ProcessingAlerts"} \/ TripUpdateBuilt) =>
          /\ PositionBuilt
          /\ CoordsOk =>
                /\ Device \in DOMAIN previous_positions
                /\ previous_positions[Device] = CurrentFix

====
